---- MODULE Spec2Model ----
(***************************************************************************)
(* The JSON exporting connector of netdata (exporting/json/json.c): the    *)
(* two instance initializers, the host-label formatter, the two            *)
(* per-dimension renderers, the batch framing of the HTTP variant and the  *)
(* HTTP header builder, driven by the exporting engine's per-cycle stage   *)
(* sequence and drained by the simple connector worker.                    *)
(*                                                                         *)
(* Text is modelled byte by byte: a string is a sequence of one-character  *)
(* strings, so buffer_strlen is Len and every separator, quote and         *)
(* bracket the code writes is an element of the buffer.                    *)
(***************************************************************************)
EXTENDS Integers, Sequences, FiniteSets, TLC

\* ------------------------------------------------------------------ bounds
\* Export cycles the engine schedules in one run.
MaxCycles == 2
\* CONFIG_MAX_VALUE, the size handed to sanitize_json_string, scaled down so
\* that truncation happens on the label values of Hosts.
CONFIG_MAX_VALUE == 4

\* ------------------------------------------------------- program constants
NULL == "NULL"
EXPORTING_CONNECTOR_TYPE_JSON == "JSON"
EXPORTING_CONNECTOR_TYPE_JSON_HTTP == "JSON_HTTP"
EXPORTING_SOURCE_DATA_AS_COLLECTED == "AS_COLLECTED"
EXPORTING_SOURCE_DATA_AVERAGE == "AVERAGE"
EXPORTING_SOURCE_DATA_SUM == "SUM"

\* A char* that may be null: <<>> is the null pointer, <<s>> points to s.
NullStr == <<>>
Str(s) == <<s>>

\* The format string of buffer_sprintf in format_dimension_collected_json_plaintext, cut at its
\* sixteen conversions: piece i is the literal text before conversion i, the last piece the tail.
collected_format ==
    <<
      <<"{", "\"", "p", "r", "e", "f", "i", "x", "\"", ":", "\"">>,
      <<"\"", ",", "\"", "h", "o", "s", "t", "n", "a", "m", "e", "\"", ":", "\"">>,
      <<"\"", ",">>,
      <<>>,
      <<>>,
      <<>>,
      <<"\"", "c", "h", "a", "r", "t", "_", "i", "d", "\"", ":", "\"">>,
      <<"\"", ",", "\"", "c", "h", "a", "r", "t", "_", "n", "a", "m", "e", "\"", ":", "\"">>,
      <<"\"", ",", "\"", "c", "h", "a", "r", "t", "_", "f", "a", "m", "i", "l", "y", "\"",
        ":", "\"">>,
      <<"\"", ",", "\"", "c", "h", "a", "r", "t", "_", "c", "o", "n", "t", "e", "x", "t",
        "\"", ":", "\"">>,
      <<"\"", ",", "\"", "c", "h", "a", "r", "t", "_", "t", "y", "p", "e", "\"", ":", "\"">>,
      <<"\"", ",", "\"", "u", "n", "i", "t", "s", "\"", ":", "\"">>,
      <<"\"", ",", "\"", "i", "d", "\"", ":", "\"">>,
      <<"\"", ",", "\"", "n", "a", "m", "e", "\"", ":", "\"">>,
      <<"\"", ",", "\"", "v", "a", "l", "u", "e", "\"", ":">>,
      <<",", "\"", "t", "i", "m", "e", "s", "t", "a", "m", "p", "\"", ":">>,
      <<"}">>
    >>

\* The format string of buffer_sprintf in format_dimension_stored_json_plaintext (note the
\* blanks after chart_context, units and timestamp).
stored_format ==
    <<
      <<"{", "\"", "p", "r", "e", "f", "i", "x", "\"", ":", "\"">>,
      <<"\"", ",", "\"", "h", "o", "s", "t", "n", "a", "m", "e", "\"", ":", "\"">>,
      <<"\"", ",">>,
      <<>>,
      <<>>,
      <<>>,
      <<"\"", "c", "h", "a", "r", "t", "_", "i", "d", "\"", ":", "\"">>,
      <<"\"", ",", "\"", "c", "h", "a", "r", "t", "_", "n", "a", "m", "e", "\"", ":", "\"">>,
      <<"\"", ",", "\"", "c", "h", "a", "r", "t", "_", "f", "a", "m", "i", "l", "y", "\"",
        ":", "\"">>,
      <<"\"", ",", "\"", "c", "h", "a", "r", "t", "_", "c", "o", "n", "t", "e", "x", "t",
        "\"", ":", " ", "\"">>,
      <<"\"", ",", "\"", "c", "h", "a", "r", "t", "_", "t", "y", "p", "e", "\"", ":", "\"">>,
      <<"\"", ",", "\"", "u", "n", "i", "t", "s", "\"", ":", " ", "\"">>,
      <<"\"", ",", "\"", "i", "d", "\"", ":", "\"">>,
      <<"\"", ",", "\"", "n", "a", "m", "e", "\"", ":", "\"">>,
      <<"\"", ",", "\"", "v", "a", "l", "u", "e", "\"", ":">>,
      <<",", "\"", "t", "i", "m", "e", "s", "t", "a", "m", "p", "\"", ":", " ">>,
      <<"}">>
    >>

\* The format string of json_http_prepare_header, cut at %s (Host) and %lu (Content-Length).
header_format ==
    <<
      <<"P", "O", "S", "T", " ", "/", "a", "p", "i", "/", "p", "u", "t", " ", "H", "T",
        "T", "P", "/", "1", ".", "1", "\r", "\n", "H", "o", "s", "t", ":", " ">>,
      <<"\r", "\n", "C", "o", "n", "t", "e", "n", "t", "-", "T", "y", "p", "e", ":", " ",
        "a", "p", "p", "l", "i", "c", "a", "t", "i", "o", "n", "/", "j", "s", "o", "n",
        "\r", "\n", "C", "o", "n", "t", "e", "n", "t", "-", "L", "e", "n", "g", "t", "h",
        ":", " ">>,
      <<"\r", "\n", "\r", "\n">>
    >>

\* "\"labels\":{" and "}," of format_host_labels_json_plaintext.
labels_open ==
    <<"\"", "l", "a", "b", "e", "l", "s", "\"", ":", "{">>
labels_close ==
    <<"}", ",">>
\* tags_pre / tags_post of the raw embedding ('{', '[' or '"' first).
tags_pre_raw ==
    <<"\"", "h", "o", "s", "t", "_", "t", "a", "g", "s", "\"", ":">>
tags_post_raw ==
    <<",">>
\* tags_pre / tags_post of the quoted embedding.
tags_pre_quoted ==
    <<"\"", "h", "o", "s", "t", "_", "t", "a", "g", "s", "\"", ":", "\"">>
tags_post_quoted ==
    <<"\"", ",">>
\* ",\n", "[\n" and "\n]\n" of the array framing, "\n" of the unframed one.
object_separator ==
    <<",", "\n">>
batch_open ==
    <<"[", "\n">>
batch_close ==
    <<"\n", "]", "\n">>
object_newline ==
    <<"\n">>

\* ------------------------------------------------------------ text helpers
DigitChars ==
    <<"0", "1", "2", "3", "4", "5", "6", "7", "8", "9">>

RECURSIVE Digits(_)
\* The decimal digits of a natural number, most significant first.
Digits(n) ==
    IF n < 10 THEN <<DigitChars[n + 1]>>
    ELSE Digits(n \div 10) \o <<DigitChars[(n % 10) + 1]>>

\* printf("%llu") and printf("%lu") of an unsigned value.
FormatUnsigned(n) ==
    Digits(n)

\* COLLECTED_NUMBER_FORMAT: printf of a signed integer (collected_number).
FormatCollected(v) ==
    IF v < 0 THEN <<"-">> \o Digits(-v) ELSE Digits(v)

\* CALCULATED_NUMBER_FORMAT: printf of a floating-point value with seven
\* decimals.  A calculated value v is held in tenths (v = 425 is 42.5).
FormatCalculated(v) ==
    LET a == IF v < 0 THEN -v ELSE v
    IN  (IF v < 0 THEN <<"-">> ELSE <<>>) \o Digits(a \div 10) \o <<".">>
        \o <<DigitChars[(a % 10) + 1]>> \o <<"0", "0", "0", "0", "0", "0">>

RECURSIVE Sprintf(_, _)
\* buffer_sprintf's expansion of a format cut at its conversions: literal
\* piece, argument, literal piece, ..., tail.
Sprintf(fmt, args) ==
    IF args = <<>> THEN fmt[1]
    ELSE fmt[1] \o args[1] \o Sprintf(Tail(fmt), Tail(args))

IsControl(c) ==
    c \in {"\t", "\n", "\r"}

RECURSIVE sanitize_json_string(_, _)
\* sanitize_json_string(dst, src, len): copies at most len characters of
\* src, a quote or a backslash preceded by a backslash, a control character
\* replaced by its backslash escape.
sanitize_json_string(src, len) ==
    IF src = <<>> \/ len <= 0 THEN <<>>
    ELSE LET c == Head(src)
             e == IF c \in {"\"", "\\"} THEN <<"\\", c>>
                  ELSE IF c = "\t" THEN <<"\\", "t">>
                  ELSE IF c = "\n" THEN <<"\\", "n">>
                  ELSE IF c = "\r" THEN <<"\\", "r">>
                  ELSE <<c>>
         IN  e \o sanitize_json_string(Tail(src), len - 1)

\* -------------------------------------------------- hosts, charts, dimensions
\* The name the engine is configured with (engine->config.hostname).
EngineHostname ==
    <<"n">>

\* The index in Hosts of the local monitoring host (the global `localhost`).
localhost == 1

\* The monitored hosts: hostname, tags (a char* that may be null) and the
\* label list, each label with the source the inclusion policy looks at.
Hosts ==
    <<
      [hostname |-> <<"l">>, tags |-> NullStr, labels |-> <<>>],
      [hostname |-> <<"w">>, tags |-> Str(<<"{", "}">>),
       labels |-> << [key |-> <<"a">>, value |-> <<"x">>, label_source |-> "AUTO"],
                     [key |-> <<"e">>, value |-> <<"p", "\"", "\\">>, label_source |-> "CONFIG"],
                     [key |-> <<"r">>, value |-> <<"d", "\t", "b", "c", "f", "g">>,
                      label_source |-> "CONFIG"] >>],
      [hostname |-> <<"x">>, tags |-> Str(<<"e", ":", "p">>),
       labels |-> << [key |-> <<"a">>, value |-> <<"x">>, label_source |-> "AUTO"] >>],
      [hostname |-> <<"y">>, tags |-> Str(<<"a", "\"", "b">>), labels |-> <<>>],
      [hostname |-> <<"z">>, tags |-> Str(<<"[", "]">>), labels |-> <<>>],
      [hostname |-> <<"v">>, tags |-> Str(<<"\"", "t", "\"">>), labels |-> <<>>],
      [hostname |-> <<"u">>, tags |-> Str(<<>>), labels |-> <<>>]
    >>

HostIds ==
    1..Len(Hosts)

\* The host lists the engine can be running with: none, every host alone,
\* and the local host together with a remote one.
HostLists ==
    {<<>>} \cup {<<h>> : h \in HostIds} \cup {<<localhost, 2>>}

\* A chart (RRDSET) of host h.
ChartOf(h) ==
    [id |-> <<"c">>, name |-> <<"m">>, family |-> <<"f">>, context |-> <<"x">>,
     type |-> <<"t">>, units |-> <<"%">>, rrdhost |-> h]

\* The dimensions (RRDDIM) of a chart, in the order the engine walks them,
\* with the last collected value and time: one for the local host's chart,
\* two for a remote host's.
DimsOf(st) ==
    IF st.rrdhost = localhost
    THEN << [id |-> <<"u">>, name |-> <<"U">>, last_collected_value |-> 42,
             last_collected_time |-> 17, rrdset |-> st] >>
    ELSE << [id |-> <<"u">>, name |-> <<"U">>, last_collected_value |-> 42,
             last_collected_time |-> 17, rrdset |-> st],
            [id |-> <<"s">>, name |-> <<"S">>, last_collected_value |-> -3,
             last_collected_time |-> 9, rrdset |-> st] >>

\* What exporting_calculate_value_from_stored_data can return for a
\* dimension: not-a-number, or a value (in tenths) with its time.
CalculatedResults ==
    { [isnan |-> TRUE, value |-> 0, last_t |-> 0],
      [isnan |-> FALSE, value |-> 425, last_t |-> 16] }

\* ----------------------------------------------------- memory and buffers
\* The program's memory as the functions see it: the instance, the BUFFERs
\* (bufs[b] is the text of buffer b; 0 is the null BUFFER pointer) and the
\* simple connector's data.
Memory(i, b, d) ==
    [instance |-> i, bufs |-> b, data |-> d]

\* buffer_strcat(b, txt) and the append of buffer_sprintf(b, ...).
buffer_strcat(m, b, txt) ==
    [m EXCEPT !.bufs[b] = @ \o txt]

buffer_strlen(m, b) ==
    Len(m.bufs[b])

buffer_tostring(m, b) ==
    m.bufs[b]

\* The BUFFER a successful buffer_create returns: a new, empty one.
NewBuffer(m) ==
    Len(m.bufs) + 1

EmptySlot ==
    [buffer |-> 0, header |-> <<>>]

\* simple_connector_init: the connector's ring of handed-off buffers starts
\* empty, with last_buffer at a free slot.
simple_connector_init(m) ==
    [m EXCEPT !.data = [last_buffer |-> EmptySlot, queue |-> <<>>]]

\* The label inclusion policy of the instance.
sending_labels_configured(instance) ==
    instance.config.send_labels # {}

should_send_label(instance, label) ==
    label.label_source \in instance.config.send_labels

\* ------------------------------------------------------------ json.c
\* The instance before an initializer ran: configuration only.
BlankInstance(cfg) ==
    [config |-> cfg, worker |-> NULL,
     start_batch_formatting |-> NULL, start_host_formatting |-> NULL,
     start_chart_formatting |-> NULL, metric_formatting |-> NULL,
     end_chart_formatting |-> NULL, end_host_formatting |-> NULL,
     end_batch_formatting |-> NULL, prepare_header |-> NULL,
     check_response |-> NULL, buffer |-> 0, labels |-> 0,
     mutex_ok |-> FALSE, cond_ok |-> FALSE]

\* EXPORTING_OPTIONS_DATA_SOURCE(instance->config.options)
EXPORTING_OPTIONS_DATA_SOURCE(options) ==
    options.data_source

\* init_json_instance leaving the end-batch stage unset.
init_json_instance_noendbatch(m, created, mutex_rc, cond_rc) ==
    LET wired == [m.instance EXCEPT
                    !.worker = "simple_connector_worker",
                    !.start_batch_formatting = NULL,
                    !.start_host_formatting = "format_host_labels_json_plaintext",
                    !.start_chart_formatting = NULL,
                    !.metric_formatting =
                        IF EXPORTING_OPTIONS_DATA_SOURCE(m.instance.config.options)
                             = EXPORTING_SOURCE_DATA_AS_COLLECTED
                        THEN "format_dimension_collected_json_plaintext"
                        ELSE "format_dimension_stored_json_plaintext",
                    !.end_chart_formatting = NULL,
                    !.end_host_formatting = "flush_host_labels",
                    !.end_batch_formatting = NULL,
                    !.prepare_header = NULL,
                    !.check_response = "exporting_discard_response",
                    !.buffer = IF created THEN NewBuffer(m) ELSE 0]
        m1 == [m EXCEPT !.instance = wired,
                        !.bufs = IF created THEN Append(@, <<>>) ELSE @]
        m2 == simple_connector_init(m1)
        m3 == [m2 EXCEPT !.instance.mutex_ok = (mutex_rc = 0)]
        m4 == [m3 EXCEPT !.instance.cond_ok = (cond_rc = 0)]
    IN  IF m1.instance.buffer = 0 THEN [mem |-> m1, rc |-> 1]
        ELSE IF mutex_rc # 0 THEN [mem |-> m2, rc |-> 1]
        ELSE IF cond_rc # 0 THEN [mem |-> m3, rc |-> 1]
        ELSE [mem |-> m4, rc |-> 0]

\* init_json_instance with the header builder of the HTTP-framed variant
\* wired in.
init_json_instance_withheader(m, created, mutex_rc, cond_rc) ==
    LET wired == [m.instance EXCEPT
                    !.worker = "simple_connector_worker",
                    !.start_batch_formatting = NULL,
                    !.start_host_formatting = "format_host_labels_json_plaintext",
                    !.start_chart_formatting = NULL,
                    !.metric_formatting =
                        IF EXPORTING_OPTIONS_DATA_SOURCE(m.instance.config.options)
                             = EXPORTING_SOURCE_DATA_AS_COLLECTED
                        THEN "format_dimension_collected_json_plaintext"
                        ELSE "format_dimension_stored_json_plaintext",
                    !.end_chart_formatting = NULL,
                    !.end_host_formatting = "flush_host_labels",
                    !.end_batch_formatting = "simple_connector_end_batch",
                    !.prepare_header = "json_http_prepare_header",
                    !.check_response = "exporting_discard_response",
                    !.buffer = IF created THEN NewBuffer(m) ELSE 0]
        m1 == [m EXCEPT !.instance = wired,
                        !.bufs = IF created THEN Append(@, <<>>) ELSE @]
        m2 == simple_connector_init(m1)
        m3 == [m2 EXCEPT !.instance.mutex_ok = (mutex_rc = 0)]
        m4 == [m3 EXCEPT !.instance.cond_ok = (cond_rc = 0)]
    IN  IF m1.instance.buffer = 0 THEN [mem |-> m1, rc |-> 1]
        ELSE IF mutex_rc # 0 THEN [mem |-> m2, rc |-> 1]
        ELSE IF cond_rc # 0 THEN [mem |-> m3, rc |-> 1]
        ELSE [mem |-> m4, rc |-> 0]

\* init_json_instance: the memory it leaves and its return value.  created
\* is whether buffer_create returned a buffer, mutex_rc and cond_rc are the
\* results of uv_mutex_init and uv_cond_init.
init_json_instance(m, created, mutex_rc, cond_rc) ==
    LET wired == [m.instance EXCEPT
                    !.worker = "simple_connector_worker",
                    !.start_batch_formatting = NULL,
                    !.start_host_formatting = "format_host_labels_json_plaintext",
                    !.start_chart_formatting = NULL,
                    !.metric_formatting =
                        IF EXPORTING_OPTIONS_DATA_SOURCE(m.instance.config.options)
                             = EXPORTING_SOURCE_DATA_AS_COLLECTED
                        THEN "format_dimension_collected_json_plaintext"
                        ELSE "format_dimension_stored_json_plaintext",
                    !.end_chart_formatting = NULL,
                    !.end_host_formatting = "flush_host_labels",
                    !.end_batch_formatting = "simple_connector_end_batch",
                    !.prepare_header = NULL,
                    !.check_response = "exporting_discard_response",
                    !.buffer = IF created THEN NewBuffer(m) ELSE 0]
        m1 == [m EXCEPT !.instance = wired,
                        !.bufs = IF created THEN Append(@, <<>>) ELSE @]
        m2 == simple_connector_init(m1)
        m3 == [m2 EXCEPT !.instance.mutex_ok = (mutex_rc = 0)]
        m4 == [m3 EXCEPT !.instance.cond_ok = (cond_rc = 0)]
    IN  IF m1.instance.buffer = 0 THEN [mem |-> m1, rc |-> 1]
        ELSE IF mutex_rc # 0 THEN [mem |-> m2, rc |-> 1]
        ELSE IF cond_rc # 0 THEN [mem |-> m3, rc |-> 1]
        ELSE [mem |-> m4, rc |-> 0]

\* init_json_http_instance leaving the end-host stage unset.
init_json_http_instance_noendhost(m, created, mutex_rc, cond_rc) ==
    LET wired == [m.instance EXCEPT
                    !.worker = "simple_connector_worker",
                    !.start_batch_formatting = "open_batch_json_http",
                    !.start_host_formatting = "format_host_labels_json_plaintext",
                    !.start_chart_formatting = NULL,
                    !.metric_formatting =
                        IF EXPORTING_OPTIONS_DATA_SOURCE(m.instance.config.options)
                             = EXPORTING_SOURCE_DATA_AS_COLLECTED
                        THEN "format_dimension_collected_json_plaintext"
                        ELSE "format_dimension_stored_json_plaintext",
                    !.end_chart_formatting = NULL,
                    !.end_host_formatting = NULL,
                    !.end_batch_formatting = "close_batch_json_http",
                    !.prepare_header = "json_http_prepare_header",
                    !.check_response = "exporting_discard_response",
                    !.buffer = IF created THEN NewBuffer(m) ELSE 0]
        m1 == [m EXCEPT !.instance = wired,
                        !.bufs = IF created THEN Append(@, <<>>) ELSE @]
        m2 == simple_connector_init(m1)
        m3 == [m2 EXCEPT !.instance.mutex_ok = (mutex_rc = 0)]
        m4 == [m3 EXCEPT !.instance.cond_ok = (cond_rc = 0)]
    IN  IF mutex_rc # 0 THEN [mem |-> m2, rc |-> 1]
        ELSE IF cond_rc # 0 THEN [mem |-> m3, rc |-> 1]
        ELSE [mem |-> m4, rc |-> 0]

\* init_json_http_instance choosing the as-calculated renderer for the
\* average data source only, the as-collected renderer for every other.
init_json_http_instance_unlessaverage(m, created, mutex_rc, cond_rc) ==
    LET wired == [m.instance EXCEPT
                    !.worker = "simple_connector_worker",
                    !.start_batch_formatting = "open_batch_json_http",
                    !.start_host_formatting = "format_host_labels_json_plaintext",
                    !.start_chart_formatting = NULL,
                    !.metric_formatting =
                        IF EXPORTING_OPTIONS_DATA_SOURCE(m.instance.config.options)
                             = EXPORTING_SOURCE_DATA_AVERAGE
                        THEN "format_dimension_stored_json_plaintext"
                        ELSE "format_dimension_collected_json_plaintext",
                    !.end_chart_formatting = NULL,
                    !.end_host_formatting = "flush_host_labels",
                    !.end_batch_formatting = "close_batch_json_http",
                    !.prepare_header = "json_http_prepare_header",
                    !.check_response = "exporting_discard_response",
                    !.buffer = IF created THEN NewBuffer(m) ELSE 0]
        m1 == [m EXCEPT !.instance = wired,
                        !.bufs = IF created THEN Append(@, <<>>) ELSE @]
        m2 == simple_connector_init(m1)
        m3 == [m2 EXCEPT !.instance.mutex_ok = (mutex_rc = 0)]
        m4 == [m3 EXCEPT !.instance.cond_ok = (cond_rc = 0)]
    IN  IF mutex_rc # 0 THEN [mem |-> m2, rc |-> 1]
        ELSE IF cond_rc # 0 THEN [mem |-> m3, rc |-> 1]
        ELSE [mem |-> m4, rc |-> 0]

\* init_json_http_instance: as above, with the array framing and the header
\* builder wired in; the result of buffer_create is not looked at.
init_json_http_instance(m, created, mutex_rc, cond_rc) ==
    LET wired == [m.instance EXCEPT
                    !.worker = "simple_connector_worker",
                    !.start_batch_formatting = "open_batch_json_http",
                    !.start_host_formatting = "format_host_labels_json_plaintext",
                    !.start_chart_formatting = NULL,
                    !.metric_formatting =
                        IF EXPORTING_OPTIONS_DATA_SOURCE(m.instance.config.options)
                             = EXPORTING_SOURCE_DATA_AS_COLLECTED
                        THEN "format_dimension_collected_json_plaintext"
                        ELSE "format_dimension_stored_json_plaintext",
                    !.end_chart_formatting = NULL,
                    !.end_host_formatting = "flush_host_labels",
                    !.end_batch_formatting = "close_batch_json_http",
                    !.prepare_header = "json_http_prepare_header",
                    !.check_response = "exporting_discard_response",
                    !.buffer = IF created THEN NewBuffer(m) ELSE 0]
        m1 == [m EXCEPT !.instance = wired,
                        !.bufs = IF created THEN Append(@, <<>>) ELSE @]
        m2 == simple_connector_init(m1)
        m3 == [m2 EXCEPT !.instance.mutex_ok = (mutex_rc = 0)]
        m4 == [m3 EXCEPT !.instance.cond_ok = (cond_rc = 0)]
    IN  IF mutex_rc # 0 THEN [mem |-> m2, rc |-> 1]
        ELSE IF cond_rc # 0 THEN [mem |-> m3, rc |-> 1]
        ELSE [mem |-> m4, rc |-> 0]

RECURSIVE host_labels_loop_countall(_, _, _)
\* host_labels_loop counting the labels it skips too (count++ before the
\* should_send_label test).
host_labels_loop_countall(instance, labels, count) ==
    IF labels = <<>> THEN <<>>
    ELSE LET label == Head(labels)
         IN  IF ~should_send_label(instance, label)
             THEN host_labels_loop_countall(instance, Tail(labels), count + 1)
             ELSE LET value == sanitize_json_string(label.value, CONFIG_MAX_VALUE)
                  IN  (IF count > 0 THEN <<",">> ELSE <<>>)
                      \o <<"\"">> \o label.key \o <<"\"", ":", "\"">> \o value \o <<"\"">>
                      \o host_labels_loop_countall(instance, Tail(labels), count + 1)

RECURSIVE host_labels_loop(_, _, _)
\* The loop of format_host_labels_json_plaintext over the host's label list:
\* the text it appends, given the labels still to visit and the count of
\* labels written so far.
host_labels_loop(instance, labels, count) ==
    IF labels = <<>> THEN <<>>
    ELSE LET label == Head(labels)
         IN  IF ~should_send_label(instance, label)
             THEN host_labels_loop(instance, Tail(labels), count)
             ELSE LET value == sanitize_json_string(label.value, CONFIG_MAX_VALUE)
                  IN  (IF count > 0 THEN <<",">> ELSE <<>>)
                      \o <<"\"">> \o label.key \o <<"\"", ":", "\"">> \o value \o <<"\"">>
                      \o host_labels_loop(instance, Tail(labels), count + 1)

\* format_host_labels_json_plaintext without the early return for an
\* instance that sends no labels.
format_host_labels_json_plaintext_always(m, host) ==
    LET m1 == IF m.instance.labels = 0
              THEN [m EXCEPT !.instance.labels = NewBuffer(m), !.bufs = Append(@, <<>>)]
              ELSE m
    IN  buffer_strcat(m1, m1.instance.labels,
            labels_open \o host_labels_loop(m1.instance, Hosts[host].labels, 0)
            \o labels_close)

\* format_host_labels_json_plaintext(instance, host)
format_host_labels_json_plaintext(m, host) ==
    LET m1 == IF m.instance.labels = 0
              THEN [m EXCEPT !.instance.labels = NewBuffer(m), !.bufs = Append(@, <<>>)]
              ELSE m
    IN  IF ~sending_labels_configured(m1.instance) THEN m1
        ELSE buffer_strcat(m1, m1.instance.labels,
                 labels_open \o host_labels_loop(m1.instance, Hosts[host].labels, 0)
                 \o labels_close)

\* flush_host_labels: the end-host stage empties the label cache.
flush_host_labels(m) ==
    IF m.instance.labels # 0 THEN [m EXCEPT !.bufs[m.instance.labels] = <<>>] ELSE m

\* The tags text the renderers work on: "" for a null host->tags.
TagsText(host) ==
    IF Hosts[host].tags = NullStr THEN <<>> ELSE Hosts[host].tags[1]

\* collected_object printing the host's own hostname for every host, the
\* local one included.
collected_object_ownname(m, rd) ==
    LET instance == m.instance
        st == rd.rrdset
        host == st.rrdhost
        tags == TagsText(host)
        raw == tags # <<>> /\ tags[1] \in {"{", "[", "\""}
        tags_pre == IF tags = <<>> THEN <<>>
                    ELSE IF raw THEN tags_pre_raw ELSE tags_pre_quoted
        tags_post == IF tags = <<>> THEN <<>>
                     ELSE IF raw THEN tags_post_raw ELSE tags_post_quoted
    IN  Sprintf(collected_format,
            << instance.config.prefix,
               Hosts[host].hostname,
               tags_pre, tags, tags_post,
               IF instance.labels # 0 THEN buffer_tostring(m, instance.labels) ELSE <<>>,
               st.id, st.name, st.family, st.context, st.type, st.units,
               rd.id, rd.name,
               FormatCollected(rd.last_collected_value),
               FormatUnsigned(rd.last_collected_time) >>)

\* The object buffer_sprintf renders in format_dimension_collected_json_plaintext:
\* the tags_pre/tags_post choice and the sixteen arguments.
collected_object(m, rd) ==
    LET instance == m.instance
        st == rd.rrdset
        host == st.rrdhost
        tags == TagsText(host)
        raw == tags # <<>> /\ tags[1] \in {"{", "[", "\""}
        tags_pre == IF tags = <<>> THEN <<>>
                    ELSE IF raw THEN tags_pre_raw ELSE tags_pre_quoted
        tags_post == IF tags = <<>> THEN <<>>
                     ELSE IF raw THEN tags_post_raw ELSE tags_post_quoted
    IN  Sprintf(collected_format,
            << instance.config.prefix,
               IF host = localhost THEN EngineHostname ELSE Hosts[host].hostname,
               tags_pre, tags, tags_post,
               IF instance.labels # 0 THEN buffer_tostring(m, instance.labels) ELSE <<>>,
               st.id, st.name, st.family, st.context, st.type, st.units,
               rd.id, rd.name,
               FormatCollected(rd.last_collected_value),
               FormatUnsigned(rd.last_collected_time) >>)

\* format_dimension_collected_json_plaintext with the separator written for
\* every connector type, the unframed one included.
format_dimension_collected_json_plaintext_anytype(m, rd) ==
    LET instance == m.instance
        m1 == IF buffer_strlen(m, instance.buffer) > 2
              THEN buffer_strcat(m, instance.buffer, object_separator)
              ELSE m
        m2 == buffer_strcat(m1, instance.buffer, collected_object(m, rd))
    IN  IF instance.config.type # EXPORTING_CONNECTOR_TYPE_JSON_HTTP
        THEN buffer_strcat(m2, instance.buffer, object_newline)
        ELSE m2

\* format_dimension_collected_json_plaintext(instance, rd)
format_dimension_collected_json_plaintext(m, rd) ==
    LET instance == m.instance
        m1 == IF instance.config.type = EXPORTING_CONNECTOR_TYPE_JSON_HTTP
                 /\ buffer_strlen(m, instance.buffer) > 2
              THEN buffer_strcat(m, instance.buffer, object_separator)
              ELSE m
        m2 == buffer_strcat(m1, instance.buffer, collected_object(m, rd))
    IN  IF instance.config.type # EXPORTING_CONNECTOR_TYPE_JSON_HTTP
        THEN buffer_strcat(m2, instance.buffer, object_newline)
        ELSE m2

\* stored_object with '[' missing from the test for raw embedding.
stored_object_nobracket(m, rd, calc) ==
    LET instance == m.instance
        st == rd.rrdset
        host == st.rrdhost
        tags == TagsText(host)
        raw == tags # <<>> /\ tags[1] \in {"{", "\""}
        tags_pre == IF tags = <<>> THEN <<>>
                    ELSE IF raw THEN tags_pre_raw ELSE tags_pre_quoted
        tags_post == IF tags = <<>> THEN <<>>
                     ELSE IF raw THEN tags_post_raw ELSE tags_post_quoted
    IN  Sprintf(stored_format,
            << instance.config.prefix,
               IF host = localhost THEN EngineHostname ELSE Hosts[host].hostname,
               tags_pre, tags, tags_post,
               IF instance.labels # 0 THEN buffer_tostring(m, instance.labels) ELSE <<>>,
               st.id, st.name, st.family, st.context, st.type, st.units,
               rd.id, rd.name,
               FormatCalculated(calc.value),
               FormatUnsigned(calc.last_t) >>)

\* The object buffer_sprintf renders in format_dimension_stored_json_plaintext;
\* calc is what exporting_calculate_value_from_stored_data returned for rd.
stored_object(m, rd, calc) ==
    LET instance == m.instance
        st == rd.rrdset
        host == st.rrdhost
        tags == TagsText(host)
        raw == tags # <<>> /\ tags[1] \in {"{", "[", "\""}
        tags_pre == IF tags = <<>> THEN <<>>
                    ELSE IF raw THEN tags_pre_raw ELSE tags_pre_quoted
        tags_post == IF tags = <<>> THEN <<>>
                     ELSE IF raw THEN tags_post_raw ELSE tags_post_quoted
    IN  Sprintf(stored_format,
            << instance.config.prefix,
               IF host = localhost THEN EngineHostname ELSE Hosts[host].hostname,
               tags_pre, tags, tags_post,
               IF instance.labels # 0 THEN buffer_tostring(m, instance.labels) ELSE <<>>,
               st.id, st.name, st.family, st.context, st.type, st.units,
               rd.id, rd.name,
               FormatCalculated(calc.value),
               FormatUnsigned(calc.last_t) >>)

\* format_dimension_stored_json_plaintext with the not-a-number test made
\* after the separator is written instead of first.
format_dimension_stored_json_plaintext_latenan(m, rd, calc) ==
    LET instance == m.instance
        m1 == IF instance.config.type = EXPORTING_CONNECTOR_TYPE_JSON_HTTP
                 /\ buffer_strlen(m, instance.buffer) > 2
              THEN buffer_strcat(m, instance.buffer, object_separator)
              ELSE m
        m2 == buffer_strcat(m1, instance.buffer, stored_object(m, rd, calc))
    IN  IF calc.isnan THEN m1
        ELSE IF instance.config.type # EXPORTING_CONNECTOR_TYPE_JSON_HTTP
        THEN buffer_strcat(m2, instance.buffer, object_newline)
        ELSE m2

\* format_dimension_stored_json_plaintext with the separator test off by one
\* (the opening bracket alone already counts as content).
format_dimension_stored_json_plaintext_sep(m, rd, calc) ==
    LET instance == m.instance
        m1 == IF instance.config.type = EXPORTING_CONNECTOR_TYPE_JSON_HTTP
                 /\ buffer_strlen(m, instance.buffer) >= 2
              THEN buffer_strcat(m, instance.buffer, object_separator)
              ELSE m
        m2 == buffer_strcat(m1, instance.buffer, stored_object(m, rd, calc))
    IN  IF calc.isnan THEN m
        ELSE IF instance.config.type # EXPORTING_CONNECTOR_TYPE_JSON_HTTP
        THEN buffer_strcat(m2, instance.buffer, object_newline)
        ELSE m2

\* format_dimension_stored_json_plaintext(instance, rd)
format_dimension_stored_json_plaintext(m, rd, calc) ==
    LET instance == m.instance
        m1 == IF instance.config.type = EXPORTING_CONNECTOR_TYPE_JSON_HTTP
                 /\ buffer_strlen(m, instance.buffer) > 2
              THEN buffer_strcat(m, instance.buffer, object_separator)
              ELSE m
        m2 == buffer_strcat(m1, instance.buffer, stored_object(m, rd, calc))
    IN  IF calc.isnan THEN m
        ELSE IF instance.config.type # EXPORTING_CONNECTOR_TYPE_JSON_HTTP
        THEN buffer_strcat(m2, instance.buffer, object_newline)
        ELSE m2

\* open_batch_json_http(instance)
open_batch_json_http(m) ==
    buffer_strcat(m, m.instance.buffer, batch_open)

\* json_http_prepare_header measuring the instance's buffer instead of the
\* buffer of the slot being handed off.
json_http_prepare_header_live(m) ==
    [m EXCEPT !.data.last_buffer.header =
        @ \o Sprintf(header_format,
                 << m.instance.config.destination,
                    FormatUnsigned(buffer_strlen(m, m.instance.buffer)) >>)]

\* json_http_prepare_header(instance): the header of the slot last_buffer
\* points at, from the length of that slot's buffer.
json_http_prepare_header(m) ==
    [m EXCEPT !.data.last_buffer.header =
        @ \o Sprintf(header_format,
                 << m.instance.config.destination,
                    FormatUnsigned(buffer_strlen(m, m.data.last_buffer.buffer)) >>)]

\* simple_connector_end_batch: the transport handoff.  The instance's
\* buffer is frozen into the slot last_buffer points at and the instance
\* gets an empty buffer for the next cycle; the header is prepared from the
\* frozen buffer when the instance has a header builder; the slot is
\* published to the worker and last_buffer moves to a free slot.
simple_connector_end_batch(m) ==
    LET m1 == [m EXCEPT !.data.last_buffer = [buffer |-> m.instance.buffer, header |-> <<>>],
                        !.instance.buffer = NewBuffer(m),
                        !.bufs = Append(@, <<>>)]
        m2 == IF m1.instance.prepare_header = "json_http_prepare_header"
              THEN json_http_prepare_header(m1)
              ELSE m1
    IN  [m2 EXCEPT !.data.queue = Append(@, m2.data.last_buffer),
                   !.data.last_buffer = EmptySlot]

\* close_batch_json_http without the call of simple_connector_end_batch.
close_batch_json_http_nohandoff(m) ==
    buffer_strcat(m, m.instance.buffer, batch_close)

\* close_batch_json_http with its two statements in the other order: the
\* handoff first, then the closing bracket into instance->buffer.
close_batch_json_http_swapped(m) ==
    LET m1 == simple_connector_end_batch(m)
    IN  buffer_strcat(m1, m1.instance.buffer, batch_close)

\* close_batch_json_http handing the batch off without the closing bracket.
close_batch_json_http_noclose(m) ==
    simple_connector_end_batch(m)

\* close_batch_json_http(instance)
close_batch_json_http(m) ==
    simple_connector_end_batch(buffer_strcat(m, m.instance.buffer, batch_close))

\* ----------------------------------------------------------- the state
VARIABLES
    instance,   \* struct instance: configuration, stage pointers, buffer, labels
    bufs,       \* the BUFFERs: bufs[b] is the text of buffer b
    data,       \* struct simple_connector_data: last_buffer and the published slots
    mutex,      \* holder of instance->mutex: "free", "producer" or "worker"
    cond,       \* instance->cond_var has been signalled and not yet consumed
    rc,         \* the initializer's return value (-1 before it ran)
    pc,         \* the exporting engine's position in the stage sequence
    host,       \* the host of the last begin-host stage of the cycle (0: none yet)
    worker,     \* the simple connector worker's position
    held,       \* the slot the worker took and is sending
    cycle,      \* number of export cycles begun
    hostlist,   \* the engine's host list, in the order it is walked
    hostpos,    \* position in hostlist of the host of the last begin-host stage
    dim,        \* position in the chart of the dimension formatted last
    fed,        \* history: the samples fed in the current cycle
    log,        \* history: one record per ended cycle
    sent        \* history: what the worker transmitted, in order

vars ==
    <<instance, bufs, data, mutex, cond, rc, pc, host, worker, held,
      cycle, hostlist, hostpos, dim, fed, log, sent>>

Mem ==
    Memory(instance, bufs, data)

\* The text of the instance's label cache ("" while it is not allocated).
LabelsText ==
    IF instance.labels = 0 THEN <<>> ELSE bufs[instance.labels]

\* The configurations an instance can be created with.
Configs ==
    [type : {EXPORTING_CONNECTOR_TYPE_JSON, EXPORTING_CONNECTOR_TYPE_JSON_HTTP},
     options : [data_source : {EXPORTING_SOURCE_DATA_AS_COLLECTED,
                               EXPORTING_SOURCE_DATA_AVERAGE}],
     send_labels : {{}, {"CONFIG"}},
     prefix : {<<"p">>},
     destination : {<<"d", ":", "1">>},
     name : {<<"j">>}]
    \cup
    [type : {EXPORTING_CONNECTOR_TYPE_JSON_HTTP},
     options : [data_source : {EXPORTING_SOURCE_DATA_SUM}],
     send_labels : {{}},
     prefix : {<<"p">>},
     destination : {<<"d", ":", "1">>},
     name : {<<"j">>}]

Init ==
    /\ instance \in {BlankInstance(cfg) : cfg \in Configs}
    /\ bufs = <<>>
    /\ data = [last_buffer |-> EmptySlot, queue |-> <<>>]
    /\ mutex = "free"
    /\ cond = FALSE
    /\ rc = -1
    /\ pc = "init"
    /\ host = 0
    /\ worker = "stopped"
    /\ held = EmptySlot
    /\ cycle = 0
    /\ hostlist \in HostLists
    /\ hostpos = 0
    /\ dim = 0
    /\ fed = <<>>
    /\ log = <<>>
    /\ sent = <<>>

\* The memory an action leaves.
Store(m) ==
    /\ instance' = m.instance
    /\ bufs' = m.bufs
    /\ data' = m.data

\* The engine creates the instance with the initializer of its connector
\* type; an instance whose initializer fails is not started.
InitInstance ==
    /\ pc = "init"
    /\ \E created \in BOOLEAN, mutex_rc \in {0, 1}, cond_rc \in {0, 1} :
         LET r == IF instance.config.type = EXPORTING_CONNECTOR_TYPE_JSON_HTTP
                  THEN init_json_http_instance(Mem, created, mutex_rc, cond_rc)
                  ELSE init_json_instance(Mem, created, mutex_rc, cond_rc)
         IN  /\ Store(r.mem)
             /\ rc' = r.rc
             /\ pc' = IF r.rc = 0 THEN "idle" ELSE "failed"
             /\ worker' = IF r.rc = 0 THEN "waiting" ELSE "stopped"
    /\ UNCHANGED <<mutex, cond, host, held, cycle, hostlist, hostpos, dim,
                   fed, log, sent>>

\* begin-batch: instance->start_batch_formatting, when set.  Appending to a
\* null BUFFER is a null dereference: the process dies.
StartBatch ==
    /\ pc = "idle"
    /\ cycle < MaxCycles
    /\ cycle' = cycle + 1
    /\ host' = 0
    /\ hostpos' = 0
    /\ fed' = <<>>
    /\ IF instance.start_batch_formatting = "open_batch_json_http"
       THEN IF instance.buffer = 0
            THEN pc' = "crashed" /\ UNCHANGED <<instance, bufs, data>>
            ELSE pc' = "batch" /\ Store(open_batch_json_http(Mem))
       ELSE pc' = "batch" /\ UNCHANGED <<instance, bufs, data>>
    /\ UNCHANGED <<mutex, cond, rc, worker, held, hostlist, dim, log, sent>>

\* begin-host: instance->start_host_formatting for the next host of the
\* engine's host list.
StartHost ==
    /\ pc = "batch"
    /\ hostpos < Len(hostlist)
    /\ hostpos' = hostpos + 1
    /\ host' = hostlist[hostpos + 1]
    /\ IF instance.start_host_formatting = "format_host_labels_json_plaintext"
       THEN Store(format_host_labels_json_plaintext(Mem, hostlist[hostpos + 1]))
       ELSE UNCHANGED <<instance, bufs, data>>
    /\ pc' = "host"
    /\ UNCHANGED <<mutex, cond, rc, worker, held, cycle, hostlist, dim,
                   fed, log, sent>>

\* begin-chart: instance->start_chart_formatting is unset.
StartChart ==
    /\ pc = "host"
    /\ instance.start_chart_formatting = NULL
    /\ pc' = "chart"
    /\ dim' = 0
    /\ UNCHANGED <<instance, bufs, data, mutex, cond, rc, host, worker, held,
                   cycle, hostlist, hostpos, fed, log, sent>>

\* per-dimension: instance->metric_formatting for the next dimension of the
\* chart.
Metric ==
    /\ pc = "chart"
    /\ dim < Len(DimsOf(ChartOf(host)))
    /\ LET rd == DimsOf(ChartOf(host))[dim + 1]
         IN  /\ dim' = dim + 1
             /\ IF instance.metric_formatting = "format_dimension_collected_json_plaintext"
                THEN /\ Store(format_dimension_collected_json_plaintext(Mem, rd))
                     /\ fed' = Append(fed, [skipped |-> FALSE, host |-> host,
                                            labels |-> LabelsText,
                                            object |-> collected_object(Mem, rd)])
                ELSE \E calc \in CalculatedResults :
                     /\ Store(format_dimension_stored_json_plaintext(Mem, rd, calc))
                     /\ fed' = Append(fed, [skipped |-> calc.isnan, host |-> host,
                                            labels |-> LabelsText,
                                            object |-> stored_object(Mem, rd, calc)])
    /\ UNCHANGED <<mutex, cond, rc, pc, host, worker, held, cycle, hostlist, hostpos,
                   log, sent>>

\* end-chart: instance->end_chart_formatting is unset.
EndChart ==
    /\ pc = "chart"
    /\ dim = Len(DimsOf(ChartOf(host)))
    /\ instance.end_chart_formatting = NULL
    /\ pc' = "charted"
    /\ UNCHANGED <<instance, bufs, data, mutex, cond, rc, host, worker, held,
                   cycle, hostlist, hostpos, dim, fed, log, sent>>

\* end-host: instance->end_host_formatting.
EndHost ==
    /\ pc = "charted"
    /\ IF instance.end_host_formatting = "flush_host_labels"
       THEN Store(flush_host_labels(Mem))
       ELSE UNCHANGED <<instance, bufs, data>>
    /\ pc' = "batch"
    /\ UNCHANGED <<mutex, cond, rc, host, worker, held, cycle, hostlist,
                   hostpos, dim, fed, log, sent>>

\* The slot the end-batch stage published, if it published one.
Published(before, after) ==
    IF Len(after.data.queue) > Len(before.data.queue)
    THEN after.data.queue[Len(after.data.queue)]
    ELSE EmptySlot

\* end-batch: the producer takes the instance's lock and runs
\* instance->end_batch_formatting, which hands the batch off.
EndBatch ==
    /\ pc = "batch"
    /\ hostpos = Len(hostlist)
    /\ mutex = "free"
    /\ mutex' = "producer"
    /\ LET m == IF instance.end_batch_formatting = "close_batch_json_http"
                THEN close_batch_json_http(Mem)
                ELSE IF instance.end_batch_formatting = "simple_connector_end_batch"
                THEN simple_connector_end_batch(Mem)
                ELSE Mem
           slot == Published(Mem, m)
       IN  /\ Store(m)
           /\ log' = Append(log, [cycle |-> cycle, fed |-> fed, live |-> instance.buffer,
                                  slot |-> slot,
                                  body |-> IF slot.buffer # 0 THEN m.bufs[slot.buffer]
                                           ELSE <<>>,
                                  released |-> FALSE])
    /\ pc' = "handoff"
    /\ UNCHANGED <<cond, rc, host, worker, held, cycle, hostlist, hostpos,
                   dim, fed, sent>>

\* The producer signals the condition variable and releases the lock: the
\* handoff of the cycle's batch is complete.
HandoffRelease ==
    /\ pc = "handoff"
    /\ mutex = "producer"
    /\ mutex' = "free"
    /\ cond' = TRUE
    /\ log' = [log EXCEPT ![Len(log)].released = TRUE]
    /\ pc' = "idle"
    /\ UNCHANGED <<instance, bufs, data, rc, host, worker, held, cycle, hostlist, hostpos, dim, fed, sent>>

\* simple_connector_worker wakes up on the condition variable with the lock
\* held and takes the oldest published slot.
WorkerTake ==
    /\ worker = "waiting"
    /\ mutex = "free"
    /\ cond
    /\ data.queue # <<>>
    /\ mutex' = "worker"
    /\ held' = Head(data.queue)
    /\ worker' = "sending"
    /\ UNCHANGED <<instance, bufs, data, cond, rc, pc, host, cycle, hostlist,
                   hostpos, dim, fed, log, sent>>

\* The worker sends the header and the buffer of the slot it took, frees the
\* slot and releases the lock.
WorkerSend ==
    /\ worker = "sending"
    /\ mutex = "worker"
    /\ sent' = Append(sent, [slot |-> held, body |-> bufs[held.buffer]])
    /\ data' = [data EXCEPT !.queue = Tail(@)]
    /\ cond' = (Len(data.queue) > 1)
    /\ held' = EmptySlot
    /\ mutex' = "free"
    /\ worker' = "waiting"
    /\ UNCHANGED <<instance, bufs, rc, pc, host, cycle, hostlist, hostpos,
                   dim, fed, log>>

Next ==
    \/ InitInstance
    \/ StartBatch
    \/ StartHost
    \/ StartChart
    \/ Metric
    \/ EndChart
    \/ EndHost
    \/ EndBatch
    \/ HandoffRelease
    \/ WorkerTake
    \/ WorkerSend

Spec ==
    Init /\ [][Next]_vars

\* ------------------------------------------------------------ properties
RECURSIVE Join(_, _)
\* The texts of a sequence, joined by sep.
Join(texts, sep) ==
    IF texts = <<>> THEN <<>>
    ELSE IF Len(texts) = 1 THEN texts[1]
    ELSE texts[1] \o sep \o Join(Tail(texts), sep)

RECURSIVE Terminated(_, _)
\* The texts of a sequence, each followed by term.
Terminated(texts, term) ==
    IF texts = <<>> THEN <<>>
    ELSE texts[1] \o term \o Terminated(Tail(texts), term)

RECURSIVE Objects(_)
\* The objects of the samples fed in, minus the skipped ones, in order.
Objects(samples) ==
    IF samples = <<>> THEN <<>>
    ELSE IF samples[1].skipped THEN Objects(Tail(samples))
    ELSE <<samples[1].object>> \o Objects(Tail(samples))

IsHttp ==
    instance.config.type = EXPORTING_CONNECTOR_TYPE_JSON_HTTP

InCycle ==
    pc \in {"batch", "host", "chart", "charted"}

\* C1: in the HTTP-framed variant the body of every finished batch is "[\n",
\* the objects of the non-skipped samples of its cycle in order, joined by
\* ",\n", and "\n]\n"; while the cycle runs the buffer is "[\n" and the objects
\* so far joined by ",\n", so no separator leads, trails or is missing.
C1_HttpBodyIsJoinedArray ==
    IsHttp =>
        /\ \A i \in 1..Len(log) :
             log[i].body = batch_open \o Join(Objects(log[i].fed), object_separator)
                           \o batch_close
        /\ InCycle =>
             bufs[instance.buffer] = batch_open \o Join(Objects(fed), object_separator)

\* C1 witness: a finished HTTP batch whose first sample was skipped and which
\* holds at least two objects.
C1_Witness ==
    /\ IsHttp
    /\ \E i \in 1..Len(log) :
         /\ Len(log[i].fed) >= 3
         /\ log[i].fed[1].skipped
         /\ Len(Objects(log[i].fed)) >= 2
         /\ log[i].body # <<>>

\* C2: in the unframed variant the buffer is, at every point of a cycle and
\* in the batch handed off, the objects of the non-skipped samples in call
\* order, each followed by one newline, and nothing else.
C2_UnframedIsNewlineTerminated ==
    ~IsHttp =>
        /\ \A i \in 1..Len(log) :
             log[i].body = Terminated(Objects(log[i].fed), object_newline)
        /\ InCycle =>
             bufs[instance.buffer] = Terminated(Objects(fed), object_newline)

\* C2 witness: a finished unframed batch of three samples, one of them
\* skipped.
C2_Witness ==
    /\ ~IsHttp
    /\ \E i \in 1..Len(log) :
         /\ Len(log[i].fed) = 3
         /\ Len(Objects(log[i].fed)) = 2
         /\ log[i].slot.buffer # 0

\* The per-dimension stage was just called with a sample it skipped.
SkippedCall ==
    /\ Len(fed') = Len(fed) + 1
    /\ fed'[Len(fed')].skipped

\* What the batch buffer holds in mid-cycle, given the objects emitted so far.
Rendered(objects) ==
    IF IsHttp THEN batch_open \o Join(objects, object_separator)
    ELSE Terminated(objects, object_newline)

\* C3: a per-dimension call of the as-calculated renderer whose value is
\* not-a-number changes neither the batch buffer nor the label cache nor any
\* other memory of the instance, in both wire variants; the buffer is at all
\* times what the non-skipped samples alone produce.
C3_NanCallChangesNothing ==
    /\ [][SkippedCall => (bufs' = bufs /\ instance' = instance /\ data' = data)]_vars
    /\ [](InCycle => bufs[instance.buffer] = Rendered(Objects(fed)))

\* C3 witness: an object, then a skipped sample, then an object again, in
\* one cycle.
C3_Witness ==
    /\ Len(fed) = 3
    /\ ~fed[1].skipped
    /\ fed[2].skipped
    /\ ~fed[3].skipped
    /\ instance.metric_formatting = "format_dimension_stored_json_plaintext"

\* The first position at which text p occurs in text s (0: nowhere).
IndexOf(p, s) ==
    LET at == {i \in 1..(Len(s) - Len(p) + 1) :
                  /\ p = <<>> \/ s[i] = p[1]
                  /\ SubSeq(s, i, i + Len(p) - 1) = p}
    IN  IF at = {} THEN 0 ELSE CHOOSE i \in at : \A j \in at : i <= j

Contains(p, s) ==
    IndexOf(p, s) # 0

IsPrefix(p, s) ==
    Len(p) <= Len(s) /\ SubSeq(s, 1, Len(p)) = p

IsSuffix(p, s) ==
    Len(p) <= Len(s) /\ SubSeq(s, Len(s) - Len(p) + 1, Len(s)) = p

\* The text of s from position i on.
From(s, i) ==
    SubSeq(s, i, Len(s))

RECURSIVE ParseNat(_, _)
\* The number a run of decimal digits at the head of s denotes, continuing
\* from the value acc read so far.
ParseNat(s, acc) ==
    IF s = <<>> \/ IndexOf(<<Head(s)>>, DigitChars) = 0 THEN acc
    ELSE ParseNat(Tail(s), 10 * acc + IndexOf(<<Head(s)>>, DigitChars) - 1)

content_length_name ==
    <<"C", "o", "n", "t", "e", "n", "t", "-", "L", "e", "n", "g", "t", "h", ":", " ">>

\* The value of the Content-Length field of a request header as a receiver
\* reads it (-1: the header has no such field with a number in it).
ContentLengthOf(header) ==
    LET at == IndexOf(content_length_name, header)
        value == From(header, at + Len(content_length_name))
    IN  IF at = 0 \/ value = <<>> \/ IndexOf(<<Head(value)>>, DigitChars) = 0 THEN -1
        ELSE ParseNat(value, 0)

\* C4: in the HTTP-framed variant the Content-Length of the header of every
\* batch handed off equals the byte length of that batch's body, closing
\* "\n]\n" included, from the handoff until the worker has transmitted it.
C4_ContentLengthIsBodyLength ==
    IsHttp =>
        /\ \A k \in 1..Len(data.queue) :
             /\ ContentLengthOf(data.queue[k].header) = Len(bufs[data.queue[k].buffer])
             /\ IsSuffix(batch_close, bufs[data.queue[k].buffer])
        /\ held.buffer # 0 => ContentLengthOf(held.header) = Len(bufs[held.buffer])
        /\ \A k \in 1..Len(sent) :
             /\ ContentLengthOf(sent[k].slot.header) = Len(sent[k].body)
             /\ IsSuffix(batch_close, sent[k].body)

\* C4 witness: the worker transmitted an HTTP batch that holds objects, and
\* another one is waiting.
C4_Witness ==
    /\ IsHttp
    /\ \E k \in 1..Len(sent) : Len(sent[k].body) > 100
    /\ data.queue # <<>>

RECURSIVE StringEnd(_, _)
\* The position of the quote that closes a JSON string literal of s whose
\* content starts at position i (0: the literal is not closed).
StringEnd(s, i) ==
    IF i > Len(s) THEN 0
    ELSE IF s[i] = "\"" THEN i
    ELSE IF s[i] = "\\" THEN StringEnd(s, i + 2)
    ELSE StringEnd(s, i + 1)

hostname_key ==
    <<"\"", "h", "o", "s", "t", "n", "a", "m", "e", "\"", ":", "\"">>
host_tags_name ==
    <<"\"", "h", "o", "s", "t", "_", "t", "a", "g", "s", "\"">>
labels_name ==
    <<"\"", "l", "a", "b", "e", "l", "s", "\"">>
chart_id_key ==
    <<"\"", "c", "h", "a", "r", "t", "_", "i", "d", "\"", ":", "\"">>

\* What follows the hostname field (its value, closing quote and comma) in
\* an object.
AfterHostname(object) ==
    LET value == IndexOf(hostname_key, object) + Len(hostname_key)
    IN  From(object, StringEnd(object, value) + 2)

\* The samples fed in during the cycle begun last, with the object rendered
\* for each; every sample is among them from its per-dimension call until
\* the next cycle begins.
Samples ==
    fed

\* The samples of the cycle begun last that were not skipped.
Emitted ==
    {Samples[k] : k \in {j \in 1..Len(Samples) : ~Samples[j].skipped}}

\* The host_tags field the tag string of host h calls for.
TagField(h) ==
    LET tags == IF Hosts[h].tags = NullStr THEN <<>> ELSE Hosts[h].tags[1]
    IN  IF tags = <<>> THEN <<>>
        ELSE IF tags[1] \in {"{", "[", "\""} THEN host_tags_name \o <<":">> \o tags \o <<",">>
        ELSE host_tags_name \o <<":", "\"">> \o tags \o <<"\"", ",">>

\* C5: in every object either renderer emits, the hostname field is followed
\* by nothing of host_tags when the host's tag string is absent or empty, by
\* "host_tags":<tags>, when it starts with '{', '[' or '"', and by
\* "host_tags":"<tags>", otherwise; then come the label fragment and chart_id.
C5_TagEmbedding ==
    \A e \in Emitted :
        /\ IsPrefix(TagField(e.host) \o e.labels \o chart_id_key, AfterHostname(e.object))
        /\ TagField(e.host) = <<>> => ~Contains(host_tags_name, e.object)

\* C5 witness: one batch holds an object of a host without tags and an
\* object of a host with raw tags, both with a label fragment.
C5_Witness ==
    \E i \in 1..Len(log) :
        /\ \E k \in 1..Len(log[i].fed) :
             LET e == log[i].fed[k]
             IN  ~e.skipped /\ Hosts[e.host].tags = NullStr /\ e.labels # <<>>
        /\ \E k \in 1..Len(log[i].fed) :
             LET e == log[i].fed[k]
             IN  ~e.skipped /\ TagField(e.host) # <<>> /\ e.labels # <<>>

\* The labels of host h the instance's inclusion policy accepts, in label-set
\* order.
AcceptedLabels(h) ==
    SelectSeq(Hosts[h].labels, LAMBDA label : should_send_label(instance, label))

\* "key":"sanitized value"
LabelPair(label) ==
    <<"\"">> \o label.key \o <<"\"", ":", "\"">>
    \o sanitize_json_string(label.value, CONFIG_MAX_VALUE) \o <<"\"">>

\* The label fragment of host h: "labels":{ pairs, comma-separated },
LabelFragment(h) ==
    labels_name \o <<":", "{">>
    \o Join([k \in 1..Len(AcceptedLabels(h)) |-> LabelPair(AcceptedLabels(h)[k])], <<",">>)
    \o <<"}", ",">>

labels_empty ==
    <<"\"", "l", "a", "b", "e", "l", "s", "\"", ":", "{", "}", ",">>

InHost ==
    pc \in {"host", "chart", "charted"}

\* C6: with label sending enabled, begin-host leaves in the label cache
\* "labels":{...}, holding exactly the accepted labels of the host in label-set
\* order as "key":"sanitized value" pairs with single commas between them and
\* none leading or trailing; it is "labels":{}, when no label is accepted.
C6_LabelFragment ==
    (sending_labels_configured(instance) /\ InHost) =>
        /\ LabelsText = LabelFragment(host)
        /\ AcceptedLabels(host) = <<>> => LabelsText = labels_empty

\* C6 witness: begin-host ran for a host of whose three labels the first is
\* rejected and two are accepted.
C6_Witness ==
    /\ sending_labels_configured(instance)
    /\ InHost
    /\ Len(Hosts[host].labels) = 3
    /\ Len(AcceptedLabels(host)) = 2
    /\ ~should_send_label(instance, Hosts[host].labels[1])

\* C7: with label sending disabled, begin-host changes neither the label
\* cache, which stays empty, nor the batch buffer, and every object emitted
\* has no labels field: chart_id follows hostname or host_tags directly.
C7_NoLabelsWhenDisabled ==
    /\ [](~sending_labels_configured(instance) =>
            /\ LabelsText = <<>>
            /\ \A e \in Emitted :
                 /\ ~Contains(labels_name, e.object)
                 /\ IsPrefix(TagField(e.host) \o chart_id_key, AfterHostname(e.object)))
    /\ [][(~sending_labels_configured(instance) /\ pc = "batch" /\ pc' = "host") =>
            /\ LabelsText' = LabelsText
            /\ instance'.buffer = instance.buffer
            /\ bufs'[instance.buffer] = bufs[instance.buffer]]_vars

\* C7 witness: with label sending disabled, an object was emitted for a host
\* that has labels.
C7_Witness ==
    /\ ~sending_labels_configured(instance)
    /\ \E e \in Emitted : Hosts[e.host].labels # <<>>

RECURSIVE PairsEnd(_, _, _)
\* Reads n "key":"value" pairs separated by single commas from position i of
\* s, as a JSON parser does; the position after the last pair (0: s does not
\* hold n pairs there).
PairsEnd(s, i, n) ==
    IF n = 0 THEN i
    ELSE IF i > Len(s) \/ s[i] # "\"" THEN 0
    ELSE LET keyEnd == StringEnd(s, i + 1)
         IN  IF keyEnd = 0 \/ keyEnd + 2 > Len(s) THEN 0
             ELSE IF s[keyEnd + 1] # ":" \/ s[keyEnd + 2] # "\"" THEN 0
             ELSE LET valueEnd == StringEnd(s, keyEnd + 3)
                  IN  IF valueEnd = 0 THEN 0
                      ELSE IF n = 1 THEN valueEnd + 1
                      ELSE IF valueEnd + 1 > Len(s) \/ s[valueEnd + 1] # "," THEN 0
                      ELSE PairsEnd(s, valueEnd + 2, n - 1)

NoControl(s) ==
    \A k \in 1..Len(s) : ~IsControl(s[k])

\* The label fragment reads back as the n pairs it was written from.
FragmentWellFormed(fragment, n) ==
    LET open == labels_name \o <<":", "{">>
        after == PairsEnd(fragment, Len(open) + 1, n)
    IN  /\ IsPrefix(open, fragment)
        /\ after # 0
        /\ From(fragment, after) = <<"}", ",">>
        /\ NoControl(fragment)

\* The quoted host_tags field at the head of rest reads back as one string
\* literal, followed by the comma and what comes next in the object.
QuotedTagsWellFormed(rest, next) ==
    LET start == Len(host_tags_name) + 3
        close == StringEnd(rest, start)
    IN  /\ close # 0
        /\ NoControl(SubSeq(rest, start, close - 1))
        /\ IsPrefix(<<",">> \o next, From(rest, close + 1))

IsQuotedTags(h) ==
    /\ TagField(h) # <<>>
    /\ IsPrefix(host_tags_name \o <<":", "\"">>, TagField(h))
    /\ Hosts[h].tags[1][1] \notin {"{", "[", "\""}

\* C8: in every emitted object the label keys and values and the tag string
\* of the quoted host_tags form are string literals without an unescaped
\* quote, backslash or control character, so each literal ends where the
\* renderer closed it and the object stays well formed.
C8_EmbeddedTextIsEscaped ==
    \A e \in Emitted :
        /\ e.labels # <<>> => FragmentWellFormed(e.labels, Len(AcceptedLabels(e.host)))
        /\ IsQuotedTags(e.host) =>
             QuotedTagsWellFormed(AfterHostname(e.object), e.labels \o chart_id_key)

\* C9: the worker holds only a batch whose handoff the producer has completed
\* (lock released), every batch it transmitted had been handed off, and the
\* batches transmitted followed by the batches waiting are the batches of the
\* ended cycles, in cycle order.
C9_HandoffBeforeObservationInOrder ==
    /\ held.buffer # 0 => \E i \in 1..Len(log) : log[i].slot = held /\ log[i].released
    /\ Len(sent) <= Len(log)
    /\ \A k \in 1..Len(sent) : log[k].released /\ sent[k].slot = log[k].slot
    /\ \A i \in 1..Len(log) : log[i].cycle = i /\ log[i].slot.buffer # 0
    /\ data.queue = [k \in 1..(Len(log) - Len(sent)) |-> log[Len(sent) + k].slot]

\* C9 witness: two cycles have ended; the worker has transmitted the batch of
\* the first and now holds the batch of the second.
C9_Witness ==
    /\ Len(log) = 2
    /\ Len(sent) = 1
    /\ sent[1].slot = log[1].slot
    /\ worker = "sending"
    /\ held = log[2].slot

\* C10: the buffer of a batch handed off keeps the text it had at the
\* handoff for ever and is never the instance's live buffer; the live buffer
\* is empty between cycles.
C10_HandedOffBatchIsFrozen ==
    /\ \A i \in 1..Len(log) :
         log[i].slot.buffer # 0 =>
            /\ bufs[log[i].slot.buffer] = log[i].body
            /\ instance.buffer # log[i].slot.buffer
    /\ (pc = "idle" /\ instance.buffer # 0) => bufs[instance.buffer] = <<>>

\* C10 witness: the formatting path has appended an object in the second
\* cycle while the worker holds the batch of the first.
C10_Witness ==
    /\ cycle = 2
    /\ InCycle
    /\ Objects(fed) # <<>>
    /\ worker = "sending"
    /\ held = log[1].slot
    /\ Len(log[1].body) > 100

\* The step is the end-batch stage of a cycle.
EndBatchStep ==
    pc = "batch" /\ pc' = "handoff"

\* The number of cycles that reached their end-batch stage.
EndedCycles ==
    IF InCycle \/ pc = "crashed" THEN cycle - 1 ELSE cycle

\* C11: in both wire variants the end-batch stage of a cycle hands exactly one
\* batch, the cycle's batch buffer, to the transport, also when the cycle
\* emitted no object; no other stage hands anything off, so the batches
\* handed off are as many as the cycles that ended.
C11_OneHandoffPerCycle ==
    /\ [][EndBatchStep =>
            /\ Len(data'.queue) = Len(data.queue) + 1
            /\ data'.queue[Len(data'.queue)].buffer = instance.buffer]_vars
    /\ [][~EndBatchStep => Len(data'.queue) <= Len(data.queue)]_vars
    /\ [](Len(sent) + Len(data.queue) = EndedCycles)

\* C11 witness: a cycle in which every sample was skipped has ended, its
\* batch was handed off and the worker has transmitted it.
C11_Witness ==
    \E i \in 1..Len(sent) :
        /\ log[i].fed # <<>>
        /\ Objects(log[i].fed) = <<>>
        /\ sent[i].slot = log[i].slot
        /\ sent[i].slot.buffer # 0

\* C12: in both wire variants an initializer that could not create the batch
\* buffer returned 1 and the instance was not started.
C12_BufferFailureIsFatal ==
    (pc # "init" /\ instance.buffer = 0) =>
        (rc = 1 /\ pc = "failed" /\ worker = "stopped")

\* C13: in both initializers a mutex or a condition variable that was not
\* set up means the initializer returned 1, and it returned 0 only with the
\* buffer, the mutex and the condition variable all set up.
C13_SyncFailureIsFatal ==
    pc # "init" =>
        /\ (~instance.mutex_ok \/ ~instance.cond_ok) => (rc = 1 /\ pc = "failed")
        /\ rc = 0 => (instance.buffer # 0 /\ instance.mutex_ok /\ instance.cond_ok)

\* The text is a whole array: it begins with "[\n" and ends with "\n]\n".
Framed(body) ==
    /\ Len(body) >= Len(batch_open) + Len(batch_close)
    /\ IsPrefix(batch_open, body)
    /\ IsSuffix(batch_close, body)

\* The buffers the transport worker can observe: those of the slots waiting,
\* of the slot it holds and of the slots it transmitted.
Observable ==
    {data.queue[k].buffer : k \in 1..Len(data.queue)}
    \cup (IF held.buffer # 0 THEN {held.buffer} ELSE {})
    \cup {sent[k].slot.buffer : k \in 1..Len(sent)}

\* C14: in the HTTP-framed variant every batch the transport worker can
\* observe begins with "[\n" and ends with "\n]\n", and has its closing
\* "\n]\n" already in the state in which it is handed off; while a cycle has
\* not reached end-batch its buffer is not among the batches published and
\* fewer batches than cycles begun have been published.
C14_NoPartialBatchHandedOff ==
    /\ [](IsHttp => \A b \in Observable : Framed(bufs[b]))
    /\ [](IsHttp => \A k \in 1..Len(sent) : Framed(sent[k].body))
    /\ [][(IsHttp /\ Len(data'.queue) > Len(data.queue)) =>
            bufs'[data'.queue[Len(data'.queue)].buffer]
                = bufs[instance.buffer] \o batch_close]_vars
    /\ [](InCycle =>
            /\ instance.buffer \notin Observable
            /\ Len(sent) + Len(data.queue) < cycle)

\* C14 witness: in the HTTP-framed variant the second cycle has emitted an
\* object and not reached end-batch, while the batch of the first cycle waits
\* for the worker.
C14_Witness ==
    /\ IsHttp
    /\ cycle = 2
    /\ InCycle
    /\ Objects(fed) # <<>>
    /\ worker = "waiting"
    /\ Len(data.queue) = 1
    /\ Len(bufs[data.queue[1].buffer]) > 100

\* The number of places at which text p occurs in text s.
CountOf(p, s) ==
    Cardinality({i \in 1..(Len(s) - Len(p) + 1) :
                    /\ p = <<>> \/ s[i] = p[1]
                    /\ SubSeq(s, i, i + Len(p) - 1) = p})

\* What the begin-host stage of host h renders into the label cache: the
\* fragment of h's accepted labels, nothing when label sending is disabled.
RenderedLabels(h) ==
    IF sending_labels_configured(instance) THEN LabelFragment(h) ELSE <<>>

\* C15: every object emitted for a host carries, between the tags and
\* chart_id, the label fragment rendered from that host's accepted labels at
\* its begin-host and no other: with label sending enabled the object holds
\* exactly one "labels" group (none when disabled); outside begin-host ..
\* end-host the label cache is empty, in every cycle.
C15_LabelCachePerHost ==
    /\ \A e \in Emitted :
         /\ e.labels = RenderedLabels(e.host)
         /\ IsPrefix(TagField(e.host) \o RenderedLabels(e.host) \o chart_id_key,
                     AfterHostname(e.object))
         /\ CountOf(labels_name, e.object)
                = (IF sending_labels_configured(instance) THEN 1 ELSE 0)
    /\ ~InHost => LabelsText = <<>>

\* C15 witness: with label sending enabled, the second cycle emitted an
\* object for the local host and then one for a host with other labels, and
\* the cache is empty again.
C15_Witness ==
    /\ sending_labels_configured(instance)
    /\ Len(log) = 2
    /\ LabelsText = <<>>
    /\ \E k \in 1..Len(log[2].fed) : \E n \in 1..Len(log[2].fed) :
         /\ k < n
         /\ ~log[2].fed[k].skipped /\ ~log[2].fed[n].skipped
         /\ log[2].fed[k].host = localhost /\ log[2].fed[n].host # localhost
         /\ log[2].fed[k].labels = labels_empty
         /\ Len(log[2].fed[n].labels) > Len(labels_empty)

\* The step is a stage that no initializer sets: begin-chart or end-chart in
\* both variants, begin-batch too in the unframed variant.
UnsetStageStep ==
    \/ pc = "host" /\ pc' = "chart"
    \/ pc = "chart" /\ pc' = "charted"
    \/ ~IsHttp /\ pc = "idle" /\ pc' = "batch"

\* The request headers built so far: of the slots waiting, held and
\* transmitted and of the slot written last.
Headers ==
    {data.queue[k].header : k \in 1..Len(data.queue)}
    \cup {sent[k].slot.header : k \in 1..Len(sent)}
    \cup {held.header, data.last_buffer.header}

\* C16: once an initializer ran, begin-chart and end-chart are unset in both
\* variants and their steps change neither the batch buffer nor the label
\* cache nor anything else of the instance; in the unframed variant
\* begin-batch and header preparation are unset as well, begin-batch changes
\* nothing and no request header is ever built; in the HTTP-framed variant
\* begin-batch, end-batch and header preparation are set.
C16_UnsetStagesAreIdentity ==
    /\ [](pc # "init" =>
            /\ instance.start_chart_formatting = NULL
            /\ instance.end_chart_formatting = NULL
            /\ ~IsHttp => /\ instance.start_batch_formatting = NULL
                          /\ instance.prepare_header = NULL
            /\ IsHttp => /\ instance.start_batch_formatting = "open_batch_json_http"
                         /\ instance.end_batch_formatting = "close_batch_json_http"
                         /\ instance.prepare_header = "json_http_prepare_header")
    /\ [][UnsetStageStep => (bufs' = bufs /\ instance' = instance /\ data' = data)]_vars
    /\ [](~IsHttp => Headers = {<<>>})

\* C16 witness: an unframed instance went through begin-batch, begin-chart
\* and end-chart, emitted objects, and its batch was transmitted without a
\* header.
C16_Witness ==
    /\ ~IsHttp
    /\ Len(sent) >= 1
    /\ Objects(log[1].fed) # <<>>
    /\ sent[1].slot.header = <<>>
    /\ Len(sent[1].body) > 100

value_key ==
    <<"\"", "v", "a", "l", "u", "e", "\"", ":">>
timestamp_key ==
    <<"\"", "t", "i", "m", "e", "s", "t", "a", "m", "p", "\"", ":">>
dimension_id_key ==
    <<"\"", "i", "d", "\"", ":", "\"">>

\* The text of s up to its first occurrence of the character c.
Until(s, c) ==
    SubSeq(s, 1, IndexOf(<<c>>, s) - 1)

RECURSIVE SkipBlanks(_)
\* The text of s without its leading blanks.
SkipBlanks(s) ==
    IF s # <<>> /\ Head(s) = " " THEN SkipBlanks(Tail(s)) ELSE s

\* The value and the timestamp of an object, as written.
ValueOf(object) ==
    Until(From(object, IndexOf(value_key, object) + Len(value_key)), ",")

TimestampOf(object) ==
    Until(SkipBlanks(From(object, IndexOf(timestamp_key, object) + Len(timestamp_key))),
          "}")

\* The dimension of the chart of host h an object was rendered for.
DimensionOf(h, object) ==
    LET dims == DimsOf(ChartOf(h))
    IN  dims[CHOOSE k \in 1..Len(dims) :
                 Contains(dimension_id_key \o dims[k].id \o <<"\"">>, object)]

\* The text is an integer in decimal: digits, after a minus sign if any.
IsInteger(text) ==
    LET digits == IF text # <<>> /\ Head(text) = "-" THEN Tail(text) ELSE text
    IN  /\ digits # <<>>
        /\ \A k \in 1..Len(digits) : Contains(<<digits[k]>>, DigitChars)

\* The text is a number with a decimal point and digits on both sides.
IsFloatingPoint(text) ==
    LET point == IndexOf(<<".">>, text)
    IN  /\ point > 1
        /\ IsInteger(SubSeq(text, 1, point - 1))
        /\ point < Len(text)
        /\ \A k \in (point + 1)..Len(text) : Contains(<<text[k]>>, DigitChars)

AsCollected ==
    EXPORTING_OPTIONS_DATA_SOURCE(instance.config.options)
        = EXPORTING_SOURCE_DATA_AS_COLLECTED

\* C17: once an initializer ran, in both wire variants, the per-dimension
\* stage is the as-collected renderer exactly when the configured data source
\* is as-collected and the as-calculated renderer for every other data
\* source, and it never changes afterwards.  With the as-collected source no
\* sample is skipped and every object holds the dimension's last collected
\* value as an integer and its last collection time; with any other source
\* the samples that are not skipped hold a floating-point value and the time
\* of the stored data.
C17_ValueSourceFixedAtInit ==
    /\ [](pc # "init" =>
            instance.metric_formatting =
                IF AsCollected THEN "format_dimension_collected_json_plaintext"
                ELSE "format_dimension_stored_json_plaintext")
    /\ [][pc # "init" =>
            /\ instance'.metric_formatting = instance.metric_formatting
            /\ instance'.config = instance.config]_vars
    /\ [](AsCollected => \A k \in 1..Len(Samples) : ~Samples[k].skipped)
    /\ [](\A e \in Emitted :
            LET rd == DimensionOf(e.host, e.object)
                value == ValueOf(e.object)
                timestamp == TimestampOf(e.object)
            IN  IF AsCollected
                THEN /\ IsInteger(value)
                     /\ value = FormatCollected(rd.last_collected_value)
                     /\ timestamp = FormatUnsigned(rd.last_collected_time)
                ELSE /\ IsFloatingPoint(value)
                     /\ \E calc \in CalculatedResults :
                          /\ ~calc.isnan
                          /\ value = FormatCalculated(calc.value)
                          /\ timestamp = FormatUnsigned(calc.last_t))

\* C17 witness: an HTTP-framed instance whose data source is neither
\* as-collected nor average skipped a sample and emitted another in its
\* second cycle.
C17_Witness ==
    /\ IsHttp
    /\ EXPORTING_OPTIONS_DATA_SOURCE(instance.config.options) = EXPORTING_SOURCE_DATA_SUM
    /\ cycle = 2
    /\ InCycle
    /\ \E k \in 1..Len(fed) : fed[k].skipped
    /\ \E k \in 1..Len(fed) : ~fed[k].skipped

\* The value of the hostname field of an object.
HostnameOf(object) ==
    LET start == IndexOf(hostname_key, object) + Len(hostname_key)
    IN  SubSeq(object, start, StringEnd(object, start) - 1)

\* C18: in every object either renderer emits, the hostname field is the
\* engine's configured hostname when the sample's host is the local
\* monitoring host and the host's own hostname for every other host.
C18_HostnameSelection ==
    \A e \in Emitted :
        HostnameOf(e.object) =
            IF e.host = localhost THEN EngineHostname ELSE Hosts[e.host].hostname

\* C18 witness: one batch of the as-collected renderer holds an object of
\* the local host, named as the engine is, and an object of another host
\* under that host's own name.
C18_Witness ==
    /\ AsCollected
    /\ \E i \in 1..Len(log) :
         /\ \E k \in 1..Len(log[i].fed) :
              /\ log[i].fed[k].host = localhost
              /\ HostnameOf(log[i].fed[k].object) = EngineHostname
         /\ \E k \in 1..Len(log[i].fed) :
              /\ log[i].fed[k].host # localhost
              /\ HostnameOf(log[i].fed[k].object) = Hosts[log[i].fed[k].host].hostname
              /\ HostnameOf(log[i].fed[k].object) # EngineHostname

====
